---- MODULE Spec2Model ----
(***************************************************************************)
(* Model of the PatientConsentToken contract                               *)
(* (contracts/medical_consent_nft/src/lib.rs).                             *)
(*                                                                         *)
(* The contract's instance storage is modelled key by key (DataKey), with  *)
(* absence of a key kept distinct from any stored value.  Every entry      *)
(* point is one action; an invocation that returns Err or panics is rolled *)
(* back by the host, so it leaves the storage as it found it and publishes *)
(* no event.  `result` records the entry point last invoked and its        *)
(* outcome, `events` what it published.  The arguments of an invocation    *)
(* are the parameters of its action.                                       *)
(***************************************************************************)
EXTENDS Integers, Sequences, FiniteSets, TLC

\* ---- bounds of the model ------------------------------------------------
MaxCalls == 5     \* successful invocations explored, initialize included
MaxTime  == 1     \* ledger timestamps 0..MaxTime

Address     == {"admin", "providerA"}
\* update_consent is explored with the pointer a record was minted with and
\* with a new one
MintUri     == {"ipfs://x"}
Uri         == {"ipfs://x", "ipfs://y"}
ConsentType == {"treatment"}
Timestamp   == 0..MaxTime
\* ids a caller may pass: the ids that MaxCalls successful invocations can
\* issue (initialize and one add_issuer come first); the highest of them is
\* absent in all states but the last
TokenId     == 0..(MaxCalls - 3)

VARIABLES
    Admin,           \* DataKey::Admin            (optional Address)
    Issuers,         \* DataKey::Issuers          (optional Vec<Address>)
    TokenCounter,    \* DataKey::TokenCounter     (optional u64)
    TokenOwner,      \* DataKey::TokenOwner(id)   (map id -> Address)
    TokenMetadata,   \* DataKey::TokenMetadata(id)(map id -> ConsentMetadata)
    TokenRevoked,    \* DataKey::TokenRevoked(id) (map id -> bool)
    OwnerTokens,     \* DataKey::OwnerTokens(a)   (map Address -> Vec<u64>)
    ConsentHistory,  \* DataKey::ConsentHistory(id)(map id -> Vec<entry>)
    now,             \* env.ledger().timestamp()
    result,          \* the last invocation: entry point, status, value
    events,          \* what it published
    minted,          \* ids returned by the successful mint_consent calls
    updates,         \* per id, the number of successful update_consent calls
    calls            \* successful invocations so far

store == <<Admin, Issuers, TokenCounter, TokenOwner, TokenMetadata,
           TokenRevoked, OwnerTokens, ConsentHistory>>
observed == <<minted, updates, calls>>
vars == <<Admin, Issuers, TokenCounter, TokenOwner, TokenMetadata,
          TokenRevoked, OwnerTokens, ConsentHistory, now, result,
          events, minted, updates, calls>>

\* ---- storage helpers ----------------------------------------------------
\* An optional value: absent, or present with a value.
None == <<>>
Some(v) == <<v>>
Has(opt) == opt # <<>>
\* Option::unwrap_or
UnwrapOr(opt, default) == IF opt # <<>> THEN opt[1] ELSE default
\* storage().instance().get(key).unwrap_or(default) on a keyed family
GetOr(map, key, default) == IF key \in DOMAIN map THEN map[key] ELSE default
\* storage().instance().set(key, value) on a keyed family
Set(map, key, value) ==
    [k \in (DOMAIN map) \cup {key} |-> IF k = key THEN value ELSE map[k]]

RECURSIVE Filter(_, _)
\* the Vec rebuilt without the elements equal to x, order kept
Filter(vec, x) ==
    IF vec = <<>> THEN <<>>
    ELSE IF Head(vec) # x THEN <<Head(vec)>> \o Filter(Tail(vec), x)
         ELSE Filter(Tail(vec), x)

RECURSIVE FilterFirst(_, _)
\* the Vec without the first element equal to x only
FilterFirst(vec, x) ==
    IF vec = <<>> THEN <<>>
    ELSE IF Head(vec) # x THEN <<Head(vec)>> \o FilterFirst(Tail(vec), x)
         ELSE Tail(vec)

Range(vec) == {vec[i] : i \in 1..Len(vec)}

\* ---- authentication -----------------------------------------------------
require_auth_skipped(address, signer) == TRUE

\* Address::require_auth: the invocation is authorized by address
require_auth(address, signer) == address = signer

\* ---- query surface ------------------------------------------------------
is_initialized_never == FALSE

\* initialize's test that the Admin key is stored
is_initialized == Has(Admin)

is_issuer_anyone(address) == TRUE

\* is_issuer: linear scan of the stored Vec, an absent Vec reads as empty
is_issuer(address) == address \in Range(UnwrapOr(Issuers, <<>>))

\* owner_of: panics when the record is absent, so it is read on existing ids
owner_of(token_id) == TokenOwner[token_id]

\* get_metadata: panics when the record is absent
get_metadata(token_id) == TokenMetadata[token_id]

is_revoked_never(token_id) == FALSE

\* is_revoked: an absent flag reads as false
is_revoked(token_id) == GetOr(TokenRevoked, token_id, FALSE)

\* get_history: an absent trail reads as empty
get_history(token_id) == GetOr(ConsentHistory, token_id, <<>>)

\* tokens_of_owner: an absent list reads as empty
tokens_of_owner(owner) == GetOr(OwnerTokens, owner, <<>>)

is_valid_through_expiry(token_id) ==
    IF GetOr(TokenRevoked, token_id, FALSE) THEN FALSE
    ELSE IF TokenMetadata[token_id].expiry_timestamp = 0 THEN TRUE
         ELSE now <= TokenMetadata[token_id].expiry_timestamp

is_valid_ignoring_revocation(token_id) ==
    IF TokenMetadata[token_id].expiry_timestamp = 0 THEN TRUE
    ELSE now < TokenMetadata[token_id].expiry_timestamp

\* is_valid: not revoked and not expired; panics when the metadata is absent
is_valid(token_id) ==
    IF is_revoked(token_id) THEN FALSE
    ELSE IF TokenMetadata[token_id].expiry_timestamp = 0 THEN TRUE
         ELSE now < TokenMetadata[token_id].expiry_timestamp

\* ---- values built by the entry points -----------------------------------
ConsentMetadata_version0(metadata_uri, consent_type, issued, expiry, issuer) ==
    [metadata_uri |-> metadata_uri, consent_type |-> consent_type,
     issued_timestamp |-> issued, expiry_timestamp |-> expiry,
     issuer |-> issuer, version |-> 0]

\* the ConsentMetadata mint_consent stores
ConsentMetadata(metadata_uri, consent_type, issued, expiry, issuer) ==
    [metadata_uri |-> metadata_uri, consent_type |-> consent_type,
     issued_timestamp |-> issued, expiry_timestamp |-> expiry,
     issuer |-> issuer, version |-> 1]

\* a ConsentHistoryEntry
ConsentHistoryEntry(action, timestamp, actor, metadata_uri) ==
    [action |-> action, timestamp |-> timestamp, actor |-> actor,
     metadata_uri |-> metadata_uri]

next_counter_stuck(token_id) == token_id

\* the counter value mint_consent stores back
next_counter(token_id) == token_id + 1

updated_metadata_clears_expiry(metadata, new_metadata_uri) ==
    [metadata EXCEPT !.metadata_uri = new_metadata_uri,
                     !.version = metadata.version + 1,
                     !.expiry_timestamp = 0]

updated_metadata_restamped(metadata, new_metadata_uri) ==
    [metadata EXCEPT !.metadata_uri = new_metadata_uri,
                     !.version = metadata.version + 1,
                     !.issued_timestamp = now]

updated_metadata_same_version(metadata, new_metadata_uri) ==
    [metadata EXCEPT !.metadata_uri = new_metadata_uri]

\* update_consent's change to the metadata
updated_metadata(metadata, new_metadata_uri) ==
    [metadata EXCEPT !.metadata_uri = new_metadata_uri,
                     !.version = metadata.version + 1]

new_issuers_first_only(issuers, issuer) == FilterFirst(issuers, issuer)

\* remove_issuer's rebuilt Vec: every element different from the target
new_issuers(issuers, issuer) == Filter(issuers, issuer)

new_from_tokens_stale(from_tokens, token_id) == from_tokens

\* transfer's rebuilt list of the sender: every id different from token_id
new_from_tokens(from_tokens, token_id) == Filter(from_tokens, token_id)

new_to_tokens_unchanged(to_tokens, token_id) == to_tokens

\* transfer's list of the receiver with the id pushed at its end
new_to_tokens(to_tokens, token_id) == Append(to_tokens, token_id)

push_history_overwrite(history, history_entry) == <<history_entry>>

push_history_dropped(history, history_entry) == history

\* update_consent's and revoke_consent's trail with the new entry pushed
push_history(history, history_entry) == Append(history, history_entry)

update_event_stale(token_id, metadata, new_metadata_uri) ==
    [topics |-> <<"consent", "updated">>,
     data |-> <<token_id, metadata.version - 1, new_metadata_uri>>]

\* the event update_consent publishes, from the metadata it stored
update_event(token_id, metadata, new_metadata_uri) ==
    [topics |-> <<"consent", "updated">>,
     data |-> <<token_id, metadata.version, new_metadata_uri>>]

owner_is_from_unchecked(owner, from) == TRUE

\* transfer's ownership test
owner_is_from(owner, from) == owner = from

\* ---- outcomes -----------------------------------------------------------
\* a returned value is kept as a tuple: empty for (), an id for mint_consent
Unit == <<>>
Ok(op, value) == [op |-> op, status |-> "Ok", value |-> value]
Err(op, error) == [op |-> op, status |-> error, value |-> Unit]

Fails_counter_consumed(op, error) ==
    /\ result' = Err(op, error)
    /\ events' = <<>>
    /\ TokenCounter' = Some(UnwrapOr(TokenCounter, 0) + 1)
    /\ UNCHANGED <<Admin, Issuers, TokenOwner, TokenMetadata, TokenRevoked,
                   OwnerTokens, ConsentHistory>>
    /\ UNCHANGED observed
    /\ UNCHANGED now

\* An invocation that returns Err or panics: the host discards its writes
\* and its events.
Fails(op, error) ==
    /\ result' = Err(op, error)
    /\ events' = <<>>
    /\ UNCHANGED store
    /\ UNCHANGED observed
    /\ UNCHANGED now

\* A successful invocation, within the explored number of them
Succeeds ==
    /\ calls < MaxCalls
    /\ calls' = calls + 1

\* ---- initial state: the contract is deployed, nothing is stored ---------
Init ==
    /\ Admin = None
    /\ Issuers = None
    /\ TokenCounter = None
    /\ TokenOwner = <<>>
    /\ TokenMetadata = <<>>
    /\ TokenRevoked = <<>>
    /\ OwnerTokens = <<>>
    /\ ConsentHistory = <<>>
    /\ now = 0
    /\ result = Ok("deploy", Unit)
    /\ events = <<>>
    /\ minted = <<>>
    /\ updates = <<>>
    /\ calls = 0

\* ---- entry points -------------------------------------------------------
\* Each takes the arguments of the call and the address that authorized it.

initialize(admin, signer) ==
    IF is_initialized THEN Fails("initialize", "AlreadyInitialized")
    ELSE IF ~require_auth(admin, signer) THEN Fails("initialize", "AuthFailed")
    ELSE /\ Succeeds
         /\ Admin' = Some(admin)
         /\ TokenCounter' = Some(0)
         /\ Issuers' = Some(<<>>)
         /\ result' = Ok("initialize", Unit)
         /\ events' = <<>>
         /\ UNCHANGED <<TokenOwner, TokenMetadata, TokenRevoked, OwnerTokens,
                        ConsentHistory, now, minted, updates>>

add_issuer(issuer, signer) ==
    IF ~Has(Admin) THEN Fails("add_issuer", "Panic")
    ELSE IF ~require_auth(Admin[1], signer) THEN Fails("add_issuer", "AuthFailed")
    ELSE LET issuers == UnwrapOr(Issuers, <<>>) IN
         /\ Succeeds
         /\ Issuers' = Some(Append(issuers, issuer))
         /\ result' = Ok("add_issuer", Unit)
         /\ events' = <<>>
         /\ UNCHANGED <<Admin, TokenCounter, TokenOwner, TokenMetadata,
                        TokenRevoked, OwnerTokens, ConsentHistory, now,
                        minted, updates>>

remove_issuer(issuer, signer) ==
    IF ~Has(Admin) THEN Fails("remove_issuer", "Panic")
    ELSE IF ~require_auth(Admin[1], signer)
         THEN Fails("remove_issuer", "AuthFailed")
    ELSE IF ~Has(Issuers) THEN Fails("remove_issuer", "Panic")
    ELSE /\ Succeeds
         /\ Issuers' = Some(new_issuers(Issuers[1], issuer))
         /\ result' = Ok("remove_issuer", Unit)
         /\ events' = <<>>
         /\ UNCHANGED <<Admin, TokenCounter, TokenOwner, TokenMetadata,
                        TokenRevoked, OwnerTokens, ConsentHistory, now,
                        minted, updates>>

mint_consent(to, metadata_uri, consent_type, expiry_timestamp, signer) ==
    LET caller == to
        token_id == UnwrapOr(TokenCounter, 0)
        metadata == ConsentMetadata(metadata_uri, consent_type, now,
                                    expiry_timestamp, caller)
        history_entry == ConsentHistoryEntry("issued", now, caller,
                                             metadata_uri)
    IN
    IF ~is_issuer(caller) THEN Fails("mint_consent", "NotAuthorized")
    ELSE IF ~require_auth(to, signer) THEN Fails("mint_consent", "AuthFailed")
    ELSE /\ Succeeds
         /\ TokenCounter' = Some(next_counter(token_id))
         /\ TokenOwner' = Set(TokenOwner, token_id, to)
         /\ TokenMetadata' = Set(TokenMetadata, token_id, metadata)
         /\ TokenRevoked' = Set(TokenRevoked, token_id, FALSE)
         /\ OwnerTokens' = Set(OwnerTokens, to,
                               Append(tokens_of_owner(to), token_id))
         /\ ConsentHistory' = Set(ConsentHistory, token_id, <<history_entry>>)
         /\ result' = Ok("mint_consent", <<token_id>>)
         /\ events' = <<[topics |-> <<"consent", "issued">>,
                         data |-> <<token_id, to, consent_type,
                                    metadata_uri>>]>>
         /\ minted' = Append(minted, token_id)
         /\ updates' = Set(updates, token_id, 0)
         /\ UNCHANGED <<Admin, Issuers, now>>

update_consent(token_id, new_metadata_uri, signer) ==
    IF token_id \notin DOMAIN TokenOwner THEN Fails("update_consent", "Panic")
    ELSE IF is_revoked(token_id) THEN Fails("update_consent", "ConsentRevoked")
    ELSE IF ~require_auth(TokenOwner[token_id], signer)
         THEN Fails("update_consent", "AuthFailed")
    ELSE IF token_id \notin DOMAIN TokenMetadata
         THEN Fails("update_consent", "Panic")
    ELSE LET owner == TokenOwner[token_id]
             metadata == updated_metadata(TokenMetadata[token_id],
                                          new_metadata_uri)
             history_entry == ConsentHistoryEntry("updated", now, owner,
                                                  new_metadata_uri)
             history == get_history(token_id)
         IN
         /\ Succeeds
         /\ TokenMetadata' = Set(TokenMetadata, token_id, metadata)
         /\ ConsentHistory' = Set(ConsentHistory, token_id,
                                  push_history(history, history_entry))
         /\ result' = Ok("update_consent", Unit)
         /\ events' = <<update_event(token_id, metadata, new_metadata_uri)>>
         /\ updates' = [updates EXCEPT ![token_id] = @ + 1]
         /\ UNCHANGED <<Admin, Issuers, TokenCounter, TokenOwner,
                        TokenRevoked, OwnerTokens, now, minted>>

revoke_consent(token_id, signer) ==
    IF token_id \notin DOMAIN TokenOwner THEN Fails("revoke_consent", "Panic")
    ELSE IF ~require_auth(TokenOwner[token_id], signer)
         THEN Fails("revoke_consent", "AuthFailed")
    \* the flag is written before this lookup; its panic discards the write
    ELSE IF token_id \notin DOMAIN TokenMetadata
         THEN Fails("revoke_consent", "Panic")
    ELSE LET owner == TokenOwner[token_id]
             metadata == TokenMetadata[token_id]
             history_entry == ConsentHistoryEntry("revoked", now, owner,
                                                  metadata.metadata_uri)
             history == get_history(token_id)
         IN
         /\ Succeeds
         /\ TokenRevoked' = Set(TokenRevoked, token_id, TRUE)
         /\ ConsentHistory' = Set(ConsentHistory, token_id,
                                  push_history(history, history_entry))
         /\ result' = Ok("revoke_consent", Unit)
         /\ events' = <<[topics |-> <<"consent", "revoked">>,
                         data |-> <<token_id, owner>>]>>
         /\ UNCHANGED <<Admin, Issuers, TokenCounter, TokenOwner,
                        TokenMetadata, OwnerTokens, now, minted, updates>>

transfer(from, to, token_id, signer) ==
    IF ~require_auth(from, signer) THEN Fails("transfer", "AuthFailed")
    ELSE IF token_id \notin DOMAIN TokenOwner THEN Fails("transfer", "Panic")
    ELSE IF ~owner_is_from(TokenOwner[token_id], from)
         THEN Fails("transfer", "NotTokenOwner")
    ELSE IF is_revoked(token_id) THEN Fails("transfer", "ConsentRevoked")
    ELSE LET \* the sender's list is stored before the receiver's is read
             afterFrom == Set(OwnerTokens, from,
                              new_from_tokens(tokens_of_owner(from), token_id))
             to_tokens == GetOr(afterFrom, to, <<>>)
         IN
         /\ Succeeds
         /\ TokenOwner' = Set(TokenOwner, token_id, to)
         /\ OwnerTokens' = Set(afterFrom, to,
                               new_to_tokens(to_tokens, token_id))
         /\ result' = Ok("transfer", Unit)
         /\ events' = <<[topics |-> <<"consent", "transfer">>,
                         data |-> <<token_id, from, to>>]>>
         /\ UNCHANGED <<Admin, Issuers, TokenCounter, TokenMetadata,
                        TokenRevoked, ConsentHistory, now, minted, updates>>

\* the ledger closes and the timestamp advances
Tick ==
    /\ now < MaxTime
    /\ now' = now + 1
    /\ result' = Ok("tick", Unit)
    /\ events' = <<>>
    /\ UNCHANGED store
    /\ UNCHANGED observed

Next ==
    \/ \E admin \in Address, signer \in Address : initialize(admin, signer)
    \/ \E issuer \in Address, signer \in Address : add_issuer(issuer, signer)
    \/ \E issuer \in Address, signer \in Address : remove_issuer(issuer, signer)
    \/ \E to \in Address, metadata_uri \in MintUri,
          consent_type \in ConsentType,
          expiry_timestamp \in Timestamp, signer \in Address :
           mint_consent(to, metadata_uri, consent_type, expiry_timestamp,
                        signer)
    \/ \E token_id \in TokenId, new_metadata_uri \in Uri, signer \in Address :
           update_consent(token_id, new_metadata_uri, signer)
    \/ \E token_id \in TokenId, signer \in Address :
           revoke_consent(token_id, signer)
    \/ \E from \in Address, to \in Address, token_id \in TokenId,
          signer \in Address : transfer(from, to, token_id, signer)
    \/ Tick

Spec == Init /\ [][Next]_vars

\* ======================================================================
\* Properties
\* ======================================================================
IssuerSet == Range(UnwrapOr(Issuers, <<>>))
IssuerSetNext == Range(UnwrapOr(Issuers', <<>>))
Issued == DOMAIN TokenOwner

\* C1: the ids returned by the successful mint_consent calls are 0,1,2,... in
\* issuance order: the k-th successful mint returns k-1; a failed mint
\* consumes no id (the counter equals the number of successful mints); and
\* the records that exist are exactly the ids returned, none reused or
\* deleted.
C1_IdsSequential ==
    /\ \A k \in 1..Len(minted) : minted[k] = k - 1
    /\ UnwrapOr(TokenCounter, 0) = Len(minted)
    /\ Issued = {k - 1 : k \in 1..Len(minted)}
    /\ DOMAIN TokenMetadata = Issued
    /\ DOMAIN ConsentHistory = Issued

\* two ids were issued and a later mint_consent failed
C1_Witness ==
    /\ Len(minted) = 2
    /\ result = Err("mint_consent", "NotAuthorized")

\* C2: immediately after a successful mint_consent(owner, uri, type, expiry)
\* returning id: owner_of(id) = owner, get_metadata(id).version = 1,
\* get_metadata(id).issuer = owner, is_revoked(id) = false and get_history(id)
\* has exactly one entry, whose action is "issued".
C2_MintPostcondition ==
    [][(result'.op = "mint_consent" /\ result'.status = "Ok") =>
       \A to \in Address, metadata_uri \in MintUri,
          consent_type \in ConsentType, expiry_timestamp \in Timestamp,
          signer \in Address, id \in TokenId :
           ( /\ mint_consent(to, metadata_uri, consent_type,
                             expiry_timestamp, signer)
             /\ result' = Ok("mint_consent", <<id>>) )
           => /\ owner_of(id)' = to
              /\ get_metadata(id)'.version = 1
              /\ get_metadata(id)'.issuer = to
              /\ is_revoked(id)' = FALSE
              /\ Len(get_history(id)') = 1
              /\ get_history(id)'[1].action = "issued"
      ]_vars

\* a mint_consent has just succeeded, for a second record
C2_Witness ==
    /\ result = Ok("mint_consent", <<1>>)
    /\ Len(get_history(1)) = 1

\* C3: after N successful update_consent calls on a record its version is
\* 1+N, whatever other operations were interleaved, and while it is not
\* revoked its history length is 1+N; so the version grows by exactly one
\* per successful update and never decreases.
C3_VersionCountsUpdates ==
    \A id \in DOMAIN TokenMetadata :
        /\ get_metadata(id).version = 1 + updates[id]
        /\ ~is_revoked(id) => Len(get_history(id)) = 1 + updates[id]

\* a non-revoked record updated twice
C3_Witness ==
    \E id \in DOMAIN TokenMetadata :
        /\ updates[id] = 2
        /\ ~is_revoked(id)
        /\ get_metadata(id).version = 3

\* C4 as stated: revoking record R makes is_valid(R) false whatever the
\* expiry and the clock, and any later update_consent or transfer on R
\* (authorized by the identity it names) fails with ConsentRevoked.
C4_AsStated ==
    [][\A id \in Issued : is_revoked(id) =>
        /\ ~is_valid(id)
        /\ result'.op = "update_consent" =>
             \A new_metadata_uri \in Uri, signer \in Address :
                 update_consent(id, new_metadata_uri, signer)
                 => result'.status = "ConsentRevoked"
        /\ result'.op = "transfer" =>
             \A from \in Address, to \in Address :
                 transfer(from, to, id, from)
                 => result'.status = "ConsentRevoked"
      ]_vars

\* C4, amended: revoking record R makes is_valid(R) false whatever the
\* expiry and the clock; any later update_consent on R fails with
\* ConsentRevoked; any later transfer on R fails and leaves the store as it
\* was, with ConsentRevoked when it is authorized by and sent from R's owner
\* and with NotTokenOwner when it is authorized by and sent from another
\* identity.
C4_RevokedIsBlocked ==
    [][\A id \in Issued : is_revoked(id) =>
        /\ ~is_valid(id)
        /\ result'.op = "update_consent" =>
             \A new_metadata_uri \in Uri, signer \in Address :
                 update_consent(id, new_metadata_uri, signer)
                 => /\ result'.status = "ConsentRevoked"
                    /\ UNCHANGED store
        /\ result'.op = "transfer" =>
             \A from \in Address, to \in Address, signer \in Address :
                 transfer(from, to, id, signer)
                 => /\ result'.status # "Ok"
                    /\ UNCHANGED store
                    /\ signer = from =>
                         result'.status = IF from = owner_of(id)
                                          THEN "ConsentRevoked"
                                          ELSE "NotTokenOwner"
      ]_vars

\* a record that never expires is revoked, and its owner's transfer has just
\* failed with ConsentRevoked
C4_Witness ==
    \E id \in Issued :
        /\ is_revoked(id)
        /\ get_metadata(id).expiry_timestamp = 0
        /\ ~is_valid(id)
        /\ result = Err("transfer", "ConsentRevoked")

\* C5: the Ownership Index is exact in every reachable state: for every
\* identity a, tokens_of_owner(a) holds an id if and only if that record
\* exists and owner_of(id) = a, and holds no id twice; so every issued id is
\* in exactly one identity's list.
C5_OwnershipIndexExact ==
    /\ \A a \in Address :
        LET tokens == tokens_of_owner(a) IN
        /\ Range(tokens) = {id \in Issued : owner_of(id) = a}
        /\ Cardinality(Range(tokens)) = Len(tokens)
    /\ DOMAIN OwnerTokens \subseteq Address
    /\ \A id \in Issued :
        Cardinality({a \in Address : id \in Range(tokens_of_owner(a))}) = 1

\* a transfer whose from and to are the same identity has just succeeded,
\* that identity holding two records
C5_Witness ==
    /\ result = Ok("transfer", Unit)
    /\ events[1].data[2] = events[1].data[3]
    /\ Len(tokens_of_owner(events[1].data[2])) = 2

\* C6 as stated: a successful transfer(from, to, id) makes owner_of(id) = to,
\* makes id leave tokens_of_owner(from) and enter tokens_of_owner(to), and
\* leaves the record's history unchanged.
C6_AsStated ==
    [][(result'.op = "transfer" /\ result'.status = "Ok") =>
       \A from \in Address, to \in Address, id \in TokenId,
          signer \in Address :
           transfer(from, to, id, signer)
           => /\ owner_of(id)' = to
              /\ id \notin Range(tokens_of_owner(from)')
              /\ id \in Range(tokens_of_owner(to)')
              /\ get_history(id)' = get_history(id)
      ]_vars

\* C6, amended: a successful transfer(from, to, id) makes owner_of(id) = to,
\* makes id enter tokens_of_owner(to) as its last element and, when from and
\* to differ, leave tokens_of_owner(from) (when they are the same identity
\* the id stays in that one list); the other ids of both lists keep their
\* order, and no history, of this or any record, changes.
C6_TransferEffect ==
    [][(result'.op = "transfer" /\ result'.status = "Ok") =>
       \A from \in Address, to \in Address, id \in TokenId,
          signer \in Address :
           transfer(from, to, id, signer)
           => /\ owner_of(id)' = to
              /\ from # to => id \notin Range(tokens_of_owner(from)')
              /\ from # to =>
                   tokens_of_owner(from)' = Filter(tokens_of_owner(from), id)
              /\ tokens_of_owner(to)' =
                   Append(Filter(tokens_of_owner(to), id), id)
              /\ ConsentHistory' = ConsentHistory
      ]_vars

\* a transfer between two different identities has just succeeded
C6_Witness ==
    /\ result = Ok("transfer", Unit)
    /\ events[1].data[2] # events[1].data[3]
    /\ events[1].data[1] \in Range(tokens_of_owner(events[1].data[3]))

\* C7: transfer(from, to, id), authorized by from, on an existing record
\* whose stored owner is not from fails with NotTokenOwner and changes no
\* state: owners, ownership lists, metadata, revoked flags, histories,
\* counter, issuer set and admin are as before the call.
C7_NotOwnerNoChange ==
    [][result'.op = "transfer" =>
       \A from \in Address, to \in Address, id \in Issued :
           (transfer(from, to, id, from) /\ TokenOwner[id] # from)
           => /\ result' = Err("transfer", "NotTokenOwner")
              /\ UNCHANGED store
      ]_vars

\* a transfer has just failed with NotTokenOwner
C7_Witness ==
    /\ result = Err("transfer", "NotTokenOwner")
    /\ Issued # {}

\* C8: mint_consent(owner, ...) fails with NotAuthorized, allocating no id
\* and changing no state, whenever owner is not in the issuer allowlist
\* (before any add_issuer, after remove_issuer(owner)), whoever authorized
\* the call; a successful add_issuer(owner) puts owner in the allowlist, and
\* a mint_consent(owner, ...) authorized by an allowlisted owner succeeds.
C8_MintNeedsIssuer ==
    [][/\ result'.op = "mint_consent" =>
           \A to \in Address, metadata_uri \in MintUri,
              consent_type \in ConsentType, expiry_timestamp \in Timestamp,
              signer \in Address :
               mint_consent(to, metadata_uri, consent_type, expiry_timestamp,
                            signer)
               => /\ to \notin IssuerSet =>
                       /\ result' = Err("mint_consent", "NotAuthorized")
                       /\ UNCHANGED store
                       /\ minted' = minted
                  /\ (to \in IssuerSet /\ signer = to) =>
                       result'.status = "Ok"
       /\ (result'.op = "add_issuer" /\ result'.status = "Ok") =>
           \A issuer \in Address, signer \in Address :
               add_issuer(issuer, signer) => issuer \in IssuerSetNext
       /\ (result'.op = "remove_issuer" /\ result'.status = "Ok") =>
           \A issuer \in Address, signer \in Address :
               remove_issuer(issuer, signer) => issuer \notin IssuerSetNext
      ]_vars

\* a mint_consent has just failed with NotAuthorized in a registry that
\* issued a record before: the issuer was removed since
C8_Witness ==
    /\ result = Err("mint_consent", "NotAuthorized")
    /\ Len(minted) >= 1
    /\ IssuerSet = {}

\* C9 as stated: an add_issuer or remove_issuer call not authorized by the
\* Admin identity fails with NotAuthorized and leaves the issuer set
\* unchanged.
C9_AsStated ==
    [][(result'.op \in {"add_issuer", "remove_issuer"} /\ Has(Admin)) =>
       \A issuer \in Address, signer \in Address :
           ( /\ add_issuer(issuer, signer) \/ remove_issuer(issuer, signer)
             /\ signer # Admin[1] )
           => /\ result'.status = "NotAuthorized"
              /\ Issuers' = Issuers
      ]_vars

\* C9, amended: an add_issuer or remove_issuer call not authorized by the
\* Admin identity fails, by the authentication abort and not with the
\* NotAuthorized error, and leaves the whole store unchanged; every change of
\* the issuer set is made by initialize or by an add_issuer or remove_issuer
\* that the Admin identity authorized.
C9_AdminOnly ==
    [][/\ (result'.op \in {"add_issuer", "remove_issuer"} /\ Has(Admin)) =>
           \A issuer \in Address, signer \in Address :
               ( /\ add_issuer(issuer, signer) \/ remove_issuer(issuer, signer)
                 /\ signer # Admin[1] )
               => /\ result'.status = "AuthFailed"
                  /\ UNCHANGED store
       /\ Issuers' # Issuers =>
           \/ \E admin \in Address : initialize(admin, admin)
           \/ /\ Has(Admin)
              /\ \E issuer \in Address :
                     \/ add_issuer(issuer, Admin[1])
                     \/ remove_issuer(issuer, Admin[1])
      ]_vars

\* an add_issuer or remove_issuer has just failed on authentication, in a
\* registry whose issuer set is not empty
C9_Witness ==
    /\ result.op \in {"add_issuer", "remove_issuer"}
    /\ result.status = "AuthFailed"
    /\ IssuerSet # {}

\* C10: after a successful remove_issuer(x), is_issuer(x) is false however
\* many times x was added before, and is_issuer(y) is as before for every
\* other y, the remaining entries keeping their order and number; removing
\* a non-member (so also a second remove_issuer(x)) leaves the whole store
\* as it was.
C10_RemoveIssuer ==
    [][(result'.op = "remove_issuer" /\ result'.status = "Ok") =>
       \A x \in Address, signer \in Address :
           remove_issuer(x, signer)
           => /\ ~is_issuer(x)'
              /\ \A y \in Address \ {x} : is_issuer(y)' = is_issuer(y)
              /\ \A y \in Address \ {x} :
                     Cardinality({i \in 1..Len(Issuers'[1]) :
                                     Issuers'[1][i] = y})
                   = Cardinality({i \in 1..Len(Issuers[1]) :
                                     Issuers[1][i] = y})
              /\ ~is_issuer(x) => UNCHANGED store
      ]_vars

\* a remove_issuer has just succeeded as the fifth successful call and left
\* one issuer: either it removed an identity that had been added twice, or
\* it was repeated
C10_Witness ==
    /\ result = Ok("remove_issuer", Unit)
    /\ calls = 5
    /\ minted = <<>>
    /\ Len(UnwrapOr(Issuers, <<>>)) = 1

\* C11: initialize succeeds at most once: once the Admin is set, every
\* initialize call, whoever authorized it, fails with AlreadyInitialized and
\* leaves Admin, issuer set, counter and all records unchanged; and no step
\* of any operation changes the Admin identity once it is set.
C11_InitializeOnce ==
    [][Has(Admin) =>
        /\ Admin' = Admin
        /\ result'.op = "initialize" =>
             \A admin \in Address, signer \in Address :
                 initialize(admin, signer)
                 => /\ result' = Err("initialize", "AlreadyInitialized")
                    /\ UNCHANGED store
      ]_vars

\* an initialize call has just failed with AlreadyInitialized in a registry
\* that holds an issuer and a record
C11_Witness ==
    /\ result = Err("initialize", "AlreadyInitialized")
    /\ Has(Admin)
    /\ IssuerSet # {}
    /\ Issued # {}

\* C12: for an existing, non-revoked record is_valid is true when its expiry
\* is 0, whatever the current time, and for a nonzero expiry it is true
\* exactly while the current time is below the expiry: with expiry 1, true
\* at time 0 and false at time 1.
C12_ValidUntilExpiry ==
    \A id \in Issued :
        TokenRevoked[id] = FALSE =>
            LET expiry == get_metadata(id).expiry_timestamp IN
            /\ expiry = 0 => is_valid(id)
            /\ (expiry # 0 /\ now < expiry) => is_valid(id)
            /\ (expiry # 0 /\ now >= expiry) => ~is_valid(id)

\* the current time has reached the nonzero expiry of a non-revoked record,
\* which is no longer valid, while a record without expiry still is
C12_Witness ==
    /\ \E id \in Issued :
        /\ TokenRevoked[id] = FALSE
        /\ get_metadata(id).expiry_timestamp = now
        /\ now # 0
        /\ ~is_valid(id)
    /\ \E id \in Issued :
        /\ TokenRevoked[id] = FALSE
        /\ get_metadata(id).expiry_timestamp = 0
        /\ is_valid(id)

LastEntry(history) == history[Len(history)]
Actions(history) == [i \in 1..Len(history) |-> history[i].action]

\* C13: each record's history is an append-only log: it is created by
\* mint_consent with the single entry "issued"; a step leaves it as it is
\* unless the step is a successful update_consent or revoke_consent on that
\* record, which appends exactly one entry ("updated", "revoked") after the
\* existing ones; no step removes, reorders or rewrites an entry, and no
\* other operation adds one.
C13_HistoryAppendOnly ==
    [][\A id \in TokenId :
        LET history == get_history(id)
            after == get_history(id)'
            updated == /\ result'.op = "update_consent"
                       /\ result'.status = "Ok"
                       /\ \E uri \in Uri, signer \in Address :
                              update_consent(id, uri, signer)
            revoked == /\ result'.op = "revoke_consent"
                       /\ result'.status = "Ok"
                       /\ \E signer \in Address : revoke_consent(id, signer)
        IN
        IF id \notin DOMAIN ConsentHistory
        THEN \/ id \notin DOMAIN ConsentHistory'
             \/ /\ result' = Ok("mint_consent", <<id>>)
                /\ Actions(after) = <<"issued">>
        ELSE /\ history[1].action = "issued"
             /\ \A i \in 2..Len(history) :
                    history[i].action \in {"updated", "revoked"}
             /\ id \in DOMAIN ConsentHistory'
             /\ IF updated
                THEN /\ after = Append(history, LastEntry(after))
                     /\ LastEntry(after).action = "updated"
                ELSE IF revoked
                THEN /\ after = Append(history, LastEntry(after))
                     /\ LastEntry(after).action = "revoked"
                ELSE after = history
      ]_vars

\* a record was issued, then updated, then revoked
C13_Witness ==
    \E id \in Issued :
        Actions(get_history(id)) = <<"issued", "updated", "revoked">>

\* C14: every failed call of any operation (a returned error, a failed
\* authentication, a panic on a missing record or an uninitialized registry)
\* leaves the counter, issuer set, admin, records, Ownership Index and Audit
\* Trail exactly as before the call; a failed revoke_consent leaves every
\* revoked flag as it was.  The one panic that comes after a write, the
\* metadata lookup of revoke_consent, cannot happen: every record that has
\* an owner has its metadata.
C14_FailureChangesNothing ==
    [][/\ Issued \subseteq DOMAIN TokenMetadata
       /\ result'.status # "Ok" =>
            /\ UNCHANGED store
            /\ result'.status \in {"NotAuthorized", "ConsentRevoked",
                                   "AlreadyInitialized", "NotTokenOwner",
                                   "AuthFailed", "Panic"}
       /\ (result'.op = "revoke_consent" /\ result'.status # "Ok") =>
            \A id \in TokenId : is_revoked(id)' = is_revoked(id)
       /\ (result'.op = "revoke_consent" /\ result'.status = "Panic") =>
            \A id \in TokenId, signer \in Address :
                revoke_consent(id, signer) => id \notin Issued
      ]_vars

\* a revoke_consent has just failed on authentication and the record it
\* named is still not revoked
C14_Witness ==
    /\ result = Err("revoke_consent", "AuthFailed")
    /\ \E id \in Issued : TokenRevoked[id] = FALSE

\* C15: once a record is revoked it is frozen: after every later step its
\* revoked flag is still true and its owner and its metadata (pointer and
\* version included) are as before; its history changes only by a further
\* successful revoke_consent on it.
C15_RevokedIsFrozen ==
    [][\A id \in Issued :
        TokenRevoked[id] = TRUE =>
            /\ TokenRevoked'[id] = TRUE
            /\ TokenOwner'[id] = TokenOwner[id]
            /\ TokenMetadata'[id] = TokenMetadata[id]
            /\ \A a \in Address :
                   (id \in Range(tokens_of_owner(a)'))
                     = (id \in Range(tokens_of_owner(a)))
            /\ ConsentHistory'[id] # ConsentHistory[id] =>
                   /\ result' = Ok("revoke_consent", Unit)
                   /\ \E signer \in Address : revoke_consent(id, signer)
      ]_vars

\* a revoked record whose owner's update_consent has just been refused
C15_Witness ==
    /\ result = Err("update_consent", "ConsentRevoked")
    /\ \E id \in Issued :
        /\ TokenRevoked[id] = TRUE
        /\ LastEntry(get_history(id)).action = "revoked"

NumRevoked(history) ==
    Cardinality({i \in 1..Len(history) : history[i].action = "revoked"})

\* C16: revoke_consent on an already-revoked record, authorized by its
\* owner, is not rejected: it succeeds, leaves the revoked flag true and
\* appends one more "revoked" entry; the number of "revoked" entries of a
\* record grows by one with every successful revoke_consent on it and with
\* nothing else, so k successful revokes leave k such entries.
C16_RevokeRepeats ==
    [][\A id \in Issued :
        LET history == get_history(id)
            after == get_history(id)'
            revoking == /\ result'.op = "revoke_consent"
                        /\ \E signer \in Address : revoke_consent(id, signer)
        IN
        /\ (revoking /\ revoke_consent(id, owner_of(id))) =>
               /\ result'.status = "Ok"
               /\ TokenRevoked'[id] = TRUE
               /\ after = Append(history,
                             ConsentHistoryEntry("revoked", now, owner_of(id),
                                 get_metadata(id).metadata_uri))
        /\ NumRevoked(after) =
               NumRevoked(history)
                 + IF revoking /\ result'.status = "Ok" THEN 1 ELSE 0
      ]_vars

\* a record revoked twice: two "revoked" entries
C16_Witness ==
    \E id \in Issued :
        /\ NumRevoked(get_history(id)) = 2
        /\ result = Ok("revoke_consent", Unit)

C18_EventsAfterSuccess ==
    [][/\ result'.status # "Ok" => events' = <<>>
       /\ (result'.op = "mint_consent" /\ result'.status = "Ok") =>
            \A id \in TokenId :
                result'.value = <<id>> =>
                    events' = <<[topics |-> <<"consent", "issued">>,
                                 data |-> <<id, owner_of(id)',
                                            get_metadata(id)'.consent_type,
                                            get_metadata(id)'.metadata_uri>>]>>
       /\ (result'.op = "update_consent" /\ result'.status = "Ok") =>
            \A id \in Issued, uri \in Uri, signer \in Address :
                update_consent(id, uri, signer) =>
                    /\ events' = <<[topics |-> <<"consent", "updated">>,
                                    data |-> <<id, get_metadata(id)'.version,
                                               get_metadata(id)'.metadata_uri>>]>>
                    /\ get_metadata(id)'.metadata_uri = uri
                    /\ get_metadata(id)'.version = get_metadata(id).version + 1
       /\ (result'.op = "revoke_consent" /\ result'.status = "Ok") =>
            \A id \in Issued, signer \in Address :
                revoke_consent(id, signer) =>
                    /\ events' = <<[topics |-> <<"consent", "revoked">>,
                                    data |-> <<id, owner_of(id)'>>]>>
                    /\ is_revoked(id)'
       /\ (result'.op = "transfer" /\ result'.status = "Ok") =>
            \A id \in Issued, from \in Address, to \in Address,
               signer \in Address :
                transfer(from, to, id, signer) =>
                    /\ events' = <<[topics |-> <<"consent", "transfer">>,
                                    data |-> <<id, from, to>>]>>
                    /\ owner_of(id)' = to
                    /\ owner_of(id) = from
       /\ (result'.op \in {"initialize", "add_issuer", "remove_issuer",
                           "tick"}) => events' = <<>>
      ]_vars

\* the second update of a record has just published its event, with version 3
C18_Witness ==
    /\ result = Ok("update_consent", Unit)
    /\ Len(events) = 1
    /\ events[1].data[2] = 3
    /\ events[1].data[3] = "ipfs://y"

\* C19: validity is monotone: the clock never goes back, and once
\* is_valid(id) is false for an existing record (revoked, or its nonzero
\* expiry reached) it is false after every later step, whatever updates,
\* transfers, revokes or allowlist changes follow.
C19_InvalidStaysInvalid ==
    [][/\ now' >= now
       /\ \A id \in Issued : ~is_valid(id) => ~is_valid(id)'
      ]_vars

\* a record whose expiry has been reached, not revoked, was updated at or
\* after its expiry and is still invalid
C19_Witness ==
    \E id \in Issued :
        /\ TokenRevoked[id] = FALSE
        /\ get_metadata(id).expiry_timestamp # 0
        /\ LastEntry(get_history(id)).action = "updated"
        /\ LastEntry(get_history(id)).timestamp
               >= get_metadata(id).expiry_timestamp
        /\ ~is_valid(id)

\* C20: a record's issuer, issued-at timestamp, consent type and expiry are
\* fixed at mint (issuer = the owner minted to, issued-at = the time of the
\* call) and never change afterwards: a step changes a record's metadata
\* only if it is a successful update_consent on it, and then only the
\* pointer and the version; transfer and revoke_consent leave the metadata
\* untouched, and remove_issuer changes no record at all.
C20_MetadataFixedAtMint ==
    [][/\ \A id \in Issued :
            /\ id \in DOMAIN TokenMetadata'
            /\ get_metadata(id)'.issuer = get_metadata(id).issuer
            /\ get_metadata(id)'.issued_timestamp
                 = get_metadata(id).issued_timestamp
            /\ get_metadata(id)'.consent_type = get_metadata(id).consent_type
            /\ get_metadata(id)'.expiry_timestamp
                 = get_metadata(id).expiry_timestamp
            /\ get_metadata(id)' # get_metadata(id) =>
                 /\ result' = Ok("update_consent", Unit)
                 /\ \E uri \in Uri, signer \in Address :
                        update_consent(id, uri, signer)
       /\ (result'.op = "mint_consent" /\ result'.status = "Ok") =>
            \A to \in Address, metadata_uri \in MintUri,
               consent_type \in ConsentType, expiry_timestamp \in Timestamp,
               signer \in Address, id \in TokenId :
                ( /\ mint_consent(to, metadata_uri, consent_type,
                                  expiry_timestamp, signer)
                  /\ result'.value = <<id>> )
                => get_metadata(id)' =
                     [metadata_uri |-> metadata_uri,
                      consent_type |-> consent_type,
                      issued_timestamp |-> now,
                      expiry_timestamp |-> expiry_timestamp,
                      issuer |-> to, version |-> 1]
       /\ result'.op = "remove_issuer" =>
            UNCHANGED <<TokenCounter, TokenOwner, TokenMetadata, TokenRevoked,
                        OwnerTokens, ConsentHistory>>
      ]_vars

\* the issuer of an updated record has just been removed from the allowlist;
\* the record still names it
C20_Witness ==
    /\ result = Ok("remove_issuer", Unit)
    /\ \E id \in Issued :
        /\ get_metadata(id).issuer \notin IssuerSet
        /\ get_metadata(id).version = 2

====
